---- MODULE Spec2Model ----
(***************************************************************************)
(* Adaptive batch scheduling engine of data_processor_ML_model:            *)
(*   optimized_worker.py  SmartBackGroundWorker (start/stop/_worker_loop)  *)
(*   batch_processor.py   BatchProcessor.process_batch and its steps       *)
(*   ml_model.py          BatchOptimizer.predict_optimal_batch_size        *)
(*   db_glue.py           Database (events, batches, cost_metrics tables)  *)
(*                                                                         *)
(* Units: money in 1/10000 dollar, data in 1/1000 KB, durations in 1/100 s. *)
(***************************************************************************)
EXTENDS Integers, Sequences, FiniteSets, TLC

\* ---------------------------------------------------------------- bounds
MaxItems == 2
MaxThreads == 2
MaxBatches == 2
MaxPredictions == 1
MaxReq == 3
MaxSize == 12
MaxDuration == 3
RawLow == 30
RawHigh == 230

\* ------------------------------------------------------ program constants
FIXED_COST == 1000
VARIABLE_COST_PER_EVENT == 50
PROCESSING_SPEED == 2
FIXED_OVERHEAD == 50
DEFAULT_BATCH_SIZE == 50
MIN_BATCH_SIZE == 20
MAX_BATCH_SIZE == 200
ROUND_STEP == 10

Items == 1..MaxItems
Threads == 1..MaxThreads
Direct == 0
Procs == 0..MaxThreads
NoThread == 0
NoBatch == 0

VARIABLES
    events,          \* table events: event -> [present, copies, processed, batch_id]
    batches,         \* table batches: sequence of rows, id = index
    cost_metrics,    \* table cost_metrics: the rows inserted so far
    is_running,      \* SmartBackGroundWorker.is_running
    thread,          \* SmartBackGroundWorker.thread (0 = None)
    stats,           \* SmartBackGroundWorker.stats
    is_trained,      \* BatchOptimizer.is_trained
    caller,          \* the caller of start()/stop(): "idle" or "joining"
    pc,              \* position of each executor of process_batch / the loop
    batch_size,      \* BatchProcessor.batch_size of the executor's processor
    batch_events,    \* local `events` of process_batch (set of row ids)
    batch_id,        \* local `batch_id` of process_batch
    processing_time, \* local `processing_time` of process_batch
    stats_read,      \* the counters a loop thread has read for its `+=`
    rows_updated,    \* local `rows_updated` of mark_events_as_processed
    consulted,       \* history: this iteration's sizing called the predictor
    snapshot,        \* the dictionary get_stats() returned to its caller
    calls_after_stop, \* history, kept where `observed`: the number n of
                     \* process_batch calls of the loop that have returned
                     \* since the running flag was cleared
    ingestion_stats, \* main.py: the global ingestion_stats
    response,        \* the last response of POST /ingest_event
    fout             \* last application of a pure function (SpecFn)

vars == <<events, batches, cost_metrics, is_running, thread, stats, is_trained,
          caller, pc, batch_size, batch_events, batch_id, processing_time,
          stats_read, rows_updated, consulted, snapshot, calls_after_stop,
          ingestion_stats, response, fout>>

store == <<events, batches, cost_metrics>>
locals == <<batch_size, batch_events, batch_id, processing_time>>
worker == <<is_running, thread, stats, is_trained, caller>>
iteration == <<stats_read, rows_updated, consulted>>
ingestion == <<ingestion_stats, response>>

\* ------------------------------------------------------------ arithmetic
Min(a, b) == IF a < b THEN a ELSE b
Max(a, b) == IF a > b THEN a ELSE b

\* Python round(n/d) for d > 0: nearest integer, exact ties to the even one.
RoundHalfEven(n, d) ==
    LET q == n \div d
        r == n % d
    IN  IF 2 * r < d THEN q
        ELSE IF 2 * r > d THEN q + 1
        ELSE IF q % 2 = 0 THEN q ELSE q + 1

\* ------------------------------------------------- the producer's events
\* Payload of the event stored in row i (EventInput.data_size_kb, .timestamp).
\* data_size_kb is any float the producer sends: 10.004 KB for the odd rows,
\* 20 KB, 40 KB, ... for the even ones. Row 1 carries the earliest timestamp,
\* rows 2 and 3 the same later one.
data_size_kb(i) == 10000 * i + 4 * (i % 2)
timestamp(i) == i \div 2

RECURSIVE SumKb(_)
SumKb(S) ==
    IF S = {} THEN 0
    ELSE LET i == CHOOSE x \in S : TRUE
         IN  data_size_kb(i) + SumKb(S \ {i})

\* round(x, 2) of a data volume: to the nearest 1/100 KB, ties to even.
Round2(kb) == RoundHalfEven(kb, 10) * 10

\* BatchProcessor.calculate_batch_metrics: 'batch_size': len(events),
\* 'total_data_kb': round(sum of data_size_kb, 2)
calculate_batch_metrics(S) ==
    [batch_size |-> Cardinality(S), total_data_kb |-> Round2(SumKb(S))]

\* ------------------------------------------------------------ CostModel
calculate_cost_dur(bs, pt) == FIXED_COST + VARIABLE_COST_PER_EVENT * bs + pt

\* BatchProcessor.calculate_cost: round(FIXED + VARIABLE * batch_size, 4)
calculate_cost(bs, pt) == FIXED_COST + VARIABLE_COST_PER_EVENT * bs

\* A quotient kept exact: num / den.
Ratio(n, d) == [num |-> n, den |-> d]

\* save_cost_metrics: cost_per_event = cost/batch_size if batch_size > 0 else 0
stored_cost_per_event(cost, bs) == IF bs > 0 THEN Ratio(cost, bs) ELSE Ratio(0, 1)

result_cost_per_event_trunc(cost, bs) == cost \div bs

\* process_batch result: 'cost_per_event': round(cost/metrics['batch_size'], 4)
result_cost_per_event(cost, bs) == RoundHalfEven(cost, bs)

\* simulate_processing: total_data_kb * 0.02 * uniform(0.8, 1.2) + 0.5, the two
\* ends of the jitter interval.
ProcessingTimes(kb) ==
    { (8 * PROCESSING_SPEED * kb) \div 10000 + FIXED_OVERHEAD,
      (12 * PROCESSING_SPEED * kb) \div 10000 + FIXED_OVERHEAD }

\* ---------------------------------------------------- BatchSizePredictor
Clamp(n) == Max(MIN_BATCH_SIZE, Min(MAX_BATCH_SIZE, n))

predict_unrounded(raw) ==
    IF ~is_trained THEN DEFAULT_BATCH_SIZE ELSE Clamp(raw)

predict_always(raw) == Clamp(RoundHalfEven(raw, ROUND_STEP) * ROUND_STEP)

\* BatchOptimizer.predict_optimal_batch_size, raw = self.model.predict(...)[0]
predict_optimal_batch_size(raw) ==
    IF ~is_trained THEN DEFAULT_BATCH_SIZE
    ELSE Clamp(RoundHalfEven(raw, ROUND_STEP) * ROUND_STEP)

\* SmartBackGroundWorker.get_smart_batch_size as a function of what its
\* queries return (the pending count, the latest completed batch or NoBatch)
\* and of the model's raw output.
get_smart_batch_size(count, recent, raw) ==
    IF count = 0 THEN DEFAULT_BATCH_SIZE
    ELSE IF recent = NoBatch THEN DEFAULT_BATCH_SIZE
    ELSE predict_optimal_batch_size(raw)

\* Raw outputs of the trained model: all of them where the predictor is applied
\* on its own, and a sample (below range, ties at 15 and 25, in range, above
\* range) where the loop calls it.
RawOutputs == (0 - RawLow)..RawHigh
RawSamples == {0 - 5, 15, 25, 47, 205}

\* ------------------------------------------------------- store queries
Unprocessed == {i \in Items : events[i].present /\ ~events[i].processed}

\* SELECT COUNT(*) FROM events WHERE processed = FALSE
unprocessed_count == Cardinality(Unprocessed)

CompletedBatches == {b \in 1..Len(batches) : batches[b].status = "completed"}

\* SELECT ... FROM batches WHERE status = 'completed' ORDER BY id DESC LIMIT 1
recent_batch ==
    IF CompletedBatches = {} THEN NoBatch
    ELSE CHOOSE b \in CompletedBatches : \A c \in CompletedBatches : c <= b

get_unprocessed_events_short(limit) ==
    LET n == Min(limit - 1, unprocessed_count)
    IN  {S \in SUBSET Unprocessed :
            /\ Cardinality(S) = n
            /\ \A i \in S, j \in Unprocessed \ S : timestamp(i) <= timestamp(j)}

get_unprocessed_events_unordered(limit) ==
    LET n == Min(limit, unprocessed_count)
    IN  {S \in SUBSET Unprocessed : Cardinality(S) = n}

get_unprocessed_events_none(limit) == {{}}

\* Database.get_unprocessed_events(limit): the result sets that
\* SELECT * FROM events WHERE processed = FALSE ORDER BY timestamp ASC LIMIT n
\* can return (rows with equal timestamps come in either order).
get_unprocessed_events(limit) ==
    LET n == Min(limit, unprocessed_count)
    IN  {S \in SUBSET Unprocessed :
            /\ Cardinality(S) = n
            /\ \A i \in S, j \in Unprocessed \ S : timestamp(i) <= timestamp(j)}

marked_none(ids, bid) == events

\* UPDATE events SET processed = TRUE, batch_id = %s WHERE id IN %s
marked(ids, bid) ==
    [i \in Items |->
        IF i \in ids /\ events[i].present
        THEN [events[i] EXCEPT !.processed = TRUE, !.batch_id = bid]
        ELSE events[i]]

\* cursor.rowcount of that UPDATE: the rows with these ids that exist.
rowcount(ids) == Cardinality({i \in ids : events[i].present})

\* ------------------------------------------------------------------ Init
\* EventInput.event_type of the event i.
EventTypes == {"order", "click"}
event_type(i) == IF i % 2 = 1 THEN "order" ELSE "click"

\* No request answered yet; otherwise the HTTP status, and for a 200 the
\* EventResponse's success and event_id.
NoResponse == [status |-> 0, success |-> FALSE, event_id |-> 0, message |-> "none"]

\* The three cumulative counters of a stats dictionary.
Counters(st) == <<st.total_batches_processed, st.total_events_processed, st.total_cost>>
NoRead == <<0, 0, 0>>
\* No dictionary returned yet. A returned dictionary is a reference: to a new
\* object holding `val` ("copy"), or to self.stats itself ("self").
NoSnapshot ==
    [ref |-> "none", runtime |-> FALSE,
     val |-> [total_batches_processed |-> 0, total_events_processed |-> 0,
              total_cost |-> 0, ml_predictions_used |-> 0,
              started_at |-> NoThread, last_batch_at |-> NoBatch]]
NoOut == [fn |-> "none", a |-> 0, b |-> 0, c |-> 0, r1 |-> 0, r2 |-> 0, r3 |-> Ratio(0, 1)]

\* The state after construction, the history aside.
Constructed ==
    /\ events = [i \in Items |->
           [present |-> FALSE, copies |-> 0, processed |-> FALSE, batch_id |-> NoBatch]]
    /\ batches = <<>>
    /\ cost_metrics = {}
    /\ is_running = FALSE
    /\ thread = NoThread
    /\ stats = [total_batches_processed |-> 0, total_events_processed |-> 0,
                total_cost |-> 0, ml_predictions_used |-> 0,
                started_at |-> 0, last_batch_at |-> 0]
    /\ is_trained \in BOOLEAN
    /\ caller = "idle"
    /\ pc = [p \in Procs |-> IF p = Direct THEN "ready" ELSE "unborn"]
    /\ batch_size = [p \in Procs |-> 0]
    /\ batch_events = [p \in Procs |-> {}]
    /\ batch_id = [p \in Procs |-> NoBatch]
    /\ processing_time = [p \in Procs |-> 0]
    /\ stats_read = [p \in Procs |-> NoRead]
    /\ rows_updated = [p \in Procs |-> 0]
    /\ consulted = [p \in Procs |-> FALSE]
    /\ snapshot = NoSnapshot
    /\ ingestion_stats = [total_events |-> 0, total_data_kb |-> 0,
                          events_per_type |-> [ty \in EventTypes |-> 0]]
    /\ response = NoResponse
    /\ fout = NoOut

Init == Constructed /\ calls_after_stop = [observed |-> FALSE, n |-> 0]

\* ------------------------------------------------------------- producer
inserted_twice(i) == [events EXCEPT ![i].present = TRUE, ![i].copies = @ + 1]

\* The events table after INSERT INTO events ... ON CONFLICT (event_id) DO
\* NOTHING for the event with event_id i: a new row, unprocessed and without
\* batch reference, unless a row with that event_id exists. `copies` is the
\* number of rows that carry the event_id.
inserted(i) ==
    IF events[i].copies = 0
    THEN [events EXCEPT ![i].present = TRUE, ![i].copies = 1]
    ELSE events

\* ... RETURNING id; return result[0] if result else None (None is written
\* 0; the ids of rows are positive).
returned_id(i) == IF events[i].copies = 0 THEN i ELSE 0

\* Database.insert_event of an event whose event_id is new.
insert_event(i) ==
    /\ ~events[i].present
    /\ events' = inserted(i)
    /\ UNCHANGED <<batches, cost_metrics, worker, pc, locals, iteration, snapshot, calls_after_stop, ingestion, fout>>

\* ------------------------------------------------ process_batch, by step
\* Where process_batch returns to, and where an exception it raises lands:
\* the loop's stats update / except clause, or the direct caller.
ReturnTo(p) == IF p = Direct THEN "returned" ELSE "stats"
RaiseTo_propagate(p) == IF p = Direct THEN "raised" ELSE "dead"

RaiseTo_retry(p) == IF p = Direct THEN "raised" ELSE "top"

RaiseTo(p) == IF p = Direct THEN "raised" ELSE "sleep"

StorePcs == {"size_count", "size_recent", "fetch", "create", "mark", "update", "save"}
ProcessBatchPcs == {"fetch", "create", "process", "mark", "update", "save"}

fetch_unprocessed_events_unguarded(p) ==
    /\ pc[p] = "fetch"
    /\ \E S \in get_unprocessed_events(batch_size[p]) :
          /\ batch_events' = [batch_events EXCEPT ![p] = S]
          /\ pc' = [pc EXCEPT ![p] = "create"]
    /\ UNCHANGED <<store, worker, batch_size, batch_id, processing_time, iteration, snapshot, calls_after_stop, ingestion, fout>>

\* History: one more call of a loop thread has returned with the flag cleared.
CountReturn(p) ==
    calls_after_stop' =
        IF calls_after_stop.observed /\ p # Direct /\ ~is_running
        THEN [calls_after_stop EXCEPT !.n = @ + 1]
        ELSE calls_after_stop

\* step 1: events = self.fetch_unprocessed_events(); if not events: return None
fetch_unprocessed_events(p) ==
    /\ pc[p] = "fetch"
    /\ \E S \in get_unprocessed_events(batch_size[p]) :
          /\ batch_events' = [batch_events EXCEPT ![p] = S]
          /\ pc' = [pc EXCEPT ![p] = IF S = {} THEN ReturnTo(p) ELSE "create"]
          /\ IF S = {} THEN CountReturn(p) ELSE UNCHANGED calls_after_stop
    /\ UNCHANGED <<store, worker, batch_size, batch_id, processing_time, iteration, snapshot, ingestion, fout>>

\* steps 2-3: calculate_batch_metrics, create_batch_record (status processing).
\* The row's field `fetched` is history: the ids this run fetched.
create_batch_record(p) ==
    /\ pc[p] = "create"
    /\ Len(batches) < MaxBatches
    /\ batches' = Append(batches,
           [batch_size |-> calculate_batch_metrics(batch_events[p]).batch_size,
            total_data_kb |-> calculate_batch_metrics(batch_events[p]).total_data_kb,
            status |-> "processing",
            processing_time_seconds |-> 0,
            processing_cost |-> 0,
            fetched |-> batch_events[p]])
    /\ batch_id' = [batch_id EXCEPT ![p] = Len(batches) + 1]
    /\ pc' = [pc EXCEPT ![p] = "process"]
    /\ UNCHANGED <<events, cost_metrics, worker, batch_size, batch_events,
                   processing_time, iteration, snapshot, calls_after_stop, ingestion, fout>>

simulate_processing_unmarked(p) ==
    /\ pc[p] = "process"
    /\ \E pt \in ProcessingTimes(calculate_batch_metrics(batch_events[p]).total_data_kb) :
          processing_time' = [processing_time EXCEPT ![p] = pt]
    /\ pc' = [pc EXCEPT ![p] = "update"]
    /\ UNCHANGED <<store, worker, batch_size, batch_events, batch_id, iteration,
                   snapshot, calls_after_stop, ingestion, fout>>

\* step 4: simulate_processing (a timed sleep), returns the elapsed time
simulate_processing(p) ==
    /\ pc[p] = "process"
    /\ \E pt \in ProcessingTimes(calculate_batch_metrics(batch_events[p]).total_data_kb) :
          processing_time' = [processing_time EXCEPT ![p] = pt]
    /\ pc' = [pc EXCEPT ![p] = "mark"]
    /\ UNCHANGED <<store, worker, batch_size, batch_events, batch_id, iteration, snapshot, calls_after_stop, ingestion, fout>>

\* step 5: cost = self.calculate_cost(metrics['batch_size'], processing_time)
Cost(p) == calculate_cost(Cardinality(batch_events[p]), processing_time[p])

\* step 6: mark_events_as_processed(event_ids, batch_id)
mark_events_as_processed(p) ==
    /\ pc[p] = "mark"
    /\ events' = marked(batch_events[p], batch_id[p])
    /\ rows_updated' = [rows_updated EXCEPT ![p] = rowcount(batch_events[p])]
    /\ pc' = [pc EXCEPT ![p] = "update"]
    /\ UNCHANGED <<batches, cost_metrics, worker, locals, stats_read, consulted, snapshot, calls_after_stop, ingestion, fout>>

update_batch_record_all(p) ==
    /\ pc[p] = "update"
    /\ batches' = [b \in 1..Len(batches) |->
           [batches[b] EXCEPT !.status = "completed",
                              !.processing_time_seconds = processing_time[p],
                              !.processing_cost = Cost(p)]]
    /\ pc' = [pc EXCEPT ![p] = "save"]
    /\ UNCHANGED <<events, cost_metrics, worker, locals, iteration, snapshot, calls_after_stop, ingestion, fout>>

update_batch_record_open(p) ==
    /\ pc[p] = "update"
    /\ LET open == {b \in 1..Len(batches) : batches[b].status = "processing"}
           first == CHOOSE b \in open : \A c \in open : b <= c
       IN  batches' = [batches EXCEPT ![first] =
               [@ EXCEPT !.status = "completed",
                         !.processing_time_seconds = processing_time[p],
                         !.processing_cost = Cost(p)]]
    /\ pc' = [pc EXCEPT ![p] = "save"]
    /\ UNCHANGED <<events, cost_metrics, worker, locals, iteration, snapshot, calls_after_stop, ingestion, fout>>

\* step 7: update_batch_record(batch_id, processing_time, cost)
update_batch_record(p) ==
    /\ pc[p] = "update"
    /\ batches' = [batches EXCEPT ![batch_id[p]] =
           [@ EXCEPT !.status = "completed",
                     !.processing_time_seconds = processing_time[p],
                     !.processing_cost = Cost(p)]]
    /\ pc' = [pc EXCEPT ![p] = "save"]
    /\ UNCHANGED <<events, cost_metrics, worker, locals, iteration, snapshot, calls_after_stop, ingestion, fout>>

save_cost_metrics_requested(p) ==
    /\ pc[p] = "save"
    /\ cost_metrics' = cost_metrics \cup
          {[batch_id |-> batch_id[p],
            batch_size |-> batch_size[p],
            total_data_kb |-> calculate_batch_metrics(batch_events[p]).total_data_kb,
            processing_time_seconds |-> processing_time[p],
            cost_per_event |-> stored_cost_per_event(Cost(p), batch_size[p])]}
    /\ pc' = [pc EXCEPT ![p] = ReturnTo(p)]
    /\ CountReturn(p)
    /\ UNCHANGED <<events, batches, worker, locals, iteration, snapshot, ingestion, fout>>

\* step 8: save_cost_metrics(...), then the result dictionary is returned
save_cost_metrics(p) ==
    /\ pc[p] = "save"
    /\ cost_metrics' = cost_metrics \cup
          {[batch_id |-> batch_id[p],
            batch_size |-> Cardinality(batch_events[p]),
            total_data_kb |-> calculate_batch_metrics(batch_events[p]).total_data_kb,
            processing_time_seconds |-> processing_time[p],
            cost_per_event |-> stored_cost_per_event(Cost(p), Cardinality(batch_events[p]))]}
    /\ pc' = [pc EXCEPT ![p] = ReturnTo(p)]
    /\ CountReturn(p)
    /\ UNCHANGED <<events, batches, worker, locals, iteration, snapshot, ingestion, fout>>

\* The dictionary process_batch returns (None when nothing was fetched).
HasResult(p) == pc[p] \in {"stats", "stats_write", "returned"} /\ batch_events[p] # {}

Result(p) ==
    [batch_id |-> batch_id[p],
     events_processed |-> Cardinality(batch_events[p]),
     total_data_kb |-> calculate_batch_metrics(batch_events[p]).total_data_kb,
     processing_time |-> processing_time[p],
     cost |-> Cost(p),
     cost_per_event |-> result_cost_per_event(Cost(p), Cardinality(batch_events[p]))]

db_error_half(p) ==
    /\ pc[p] \in StorePcs
    /\ pc' = [pc EXCEPT ![p] = RaiseTo(p)]
    /\ events' = IF pc[p] = "mark" THEN marked(batch_events[p], batch_id[p]) ELSE events
    /\ batch_events' = [batch_events EXCEPT ![p] = {}]
    /\ batch_id' = [batch_id EXCEPT ![p] = NoBatch]
    /\ processing_time' = [processing_time EXCEPT ![p] = 0]
    /\ consulted' = [consulted EXCEPT ![p] = FALSE]
    /\ rows_updated' = [rows_updated EXCEPT ![p] = 0]
    /\ UNCHANGED <<batches, cost_metrics, worker, batch_size, stats_read, snapshot, calls_after_stop, ingestion, fout>>

db_error_counted(p) ==
    /\ pc[p] \in StorePcs
    /\ pc' = [pc EXCEPT ![p] = RaiseTo(p)]
    /\ batch_events' = [batch_events EXCEPT ![p] = {}]
    /\ batch_id' = [batch_id EXCEPT ![p] = NoBatch]
    /\ processing_time' = [processing_time EXCEPT ![p] = 0]
    /\ consulted' = [consulted EXCEPT ![p] = FALSE]
    /\ rows_updated' = [rows_updated EXCEPT ![p] = 0]
    /\ stats' = [stats EXCEPT !.last_batch_at = NoBatch]
    /\ UNCHANGED <<store, is_running, thread, is_trained, caller, batch_size,
                   stats_read, snapshot, calls_after_stop, ingestion, fout>>

\* A store call fails: get_connection rolls back and re-raises. The statement
\* of the step is not committed; the exception leaves process_batch (and
\* get_smart_batch_size) and reaches the loop's except clause or the caller.
db_error(p) ==
    /\ pc[p] \in StorePcs
    /\ pc' = [pc EXCEPT ![p] = RaiseTo(p)]
    /\ batch_events' = [batch_events EXCEPT ![p] = {}]
    /\ batch_id' = [batch_id EXCEPT ![p] = NoBatch]
    /\ processing_time' = [processing_time EXCEPT ![p] = 0]
    /\ consulted' = [consulted EXCEPT ![p] = FALSE]
    /\ rows_updated' = [rows_updated EXCEPT ![p] = 0]
    /\ UNCHANGED <<store, worker, batch_size, stats_read, snapshot, calls_after_stop, ingestion, fout>>

process_batch(p) ==
    \/ fetch_unprocessed_events(p)
    \/ create_batch_record(p)
    \/ simulate_processing(p)
    \/ mark_events_as_processed(p)
    \/ update_batch_record(p)
    \/ save_cost_metrics(p)

\* ------------------------------------------------- the Scheduler's loop
\* _worker_loop, before the while: self.stats['started_at'] = datetime.now().
\* The time read by loop thread t at its start is written t.
loop_begin_reset(t) ==
    /\ pc[t] = "begin"
    /\ stats' = [stats EXCEPT !.started_at = t,
                              !.total_batches_processed = 0,
                              !.total_events_processed = 0,
                              !.total_cost = 0]
    /\ pc' = [pc EXCEPT ![t] = "top"]
    /\ UNCHANGED <<store, is_running, thread, is_trained, caller, locals, iteration, snapshot, calls_after_stop, ingestion, fout>>

loop_begin(t) ==
    /\ pc[t] = "begin"
    /\ stats' = [stats EXCEPT !.started_at = t]
    /\ pc' = [pc EXCEPT ![t] = "top"]
    /\ UNCHANGED <<store, is_running, thread, is_trained, caller, locals, iteration, snapshot, calls_after_stop, ingestion, fout>>

\* while self.is_running:
loop_check(t) ==
    /\ pc[t] = "top"
    /\ pc' = [pc EXCEPT ![t] = IF is_running THEN "size_count" ELSE "dead"]
    /\ UNCHANGED <<store, worker, locals, iteration, snapshot, calls_after_stop, ingestion, fout>>

\* get_smart_batch_size, the count query: if unprocessed_count == 0: return 50
size_count(t) ==
    /\ pc[t] = "size_count"
    /\ IF unprocessed_count = 0
       THEN /\ batch_size' = [batch_size EXCEPT ![t] =
                    get_smart_batch_size(unprocessed_count, recent_batch, 0)]
            /\ pc' = [pc EXCEPT ![t] = "fetch"]
       ELSE /\ pc' = [pc EXCEPT ![t] = "size_recent"]
            /\ UNCHANGED batch_size
    /\ UNCHANGED <<store, worker, batch_events, batch_id, processing_time, iteration, snapshot, calls_after_stop, ingestion, fout>>

\* get_smart_batch_size after a count > 0, the recent-batch query:
\* if not recent_batch: return 50; otherwise the pending aggregates are read, the predictor is called and
\* ml_predictions_used is incremented. The model's raw output is any value.
size_recent(t) ==
    /\ pc[t] = "size_recent"
    /\ IF recent_batch = NoBatch
       THEN /\ batch_size' = [batch_size EXCEPT ![t] =
                    get_smart_batch_size(1, recent_batch, 0)]
            /\ UNCHANGED <<stats, consulted>>
       ELSE /\ stats.ml_predictions_used < MaxPredictions
            /\ \E raw \in RawSamples :
                  batch_size' = [batch_size EXCEPT ![t] =
                      get_smart_batch_size(1, recent_batch, raw)]
            /\ stats' = [stats EXCEPT !.ml_predictions_used = @ + 1]
            /\ consulted' = [consulted EXCEPT ![t] = TRUE]
    /\ pc' = [pc EXCEPT ![t] = "fetch"]
    /\ UNCHANGED <<store, is_running, thread, is_trained, caller,
                   batch_events, batch_id, processing_time, stats_read,
                   rows_updated, snapshot, calls_after_stop, ingestion, fout>>

\* The iteration is over: its locals die.
EndIteration(t) ==
    /\ pc' = [pc EXCEPT ![t] = "sleep"]
    /\ batch_size' = [batch_size EXCEPT ![t] = 0]
    /\ batch_events' = [batch_events EXCEPT ![t] = {}]
    /\ batch_id' = [batch_id EXCEPT ![t] = NoBatch]
    /\ processing_time' = [processing_time EXCEPT ![t] = 0]
    /\ stats_read' = [stats_read EXCEPT ![t] = NoRead]
    /\ rows_updated' = [rows_updated EXCEPT ![t] = 0]
    /\ consulted' = [consulted EXCEPT ![t] = FALSE]

\* if result: self.stats[...] += ... on the three cumulative counters. A `+=`
\* on a dictionary entry is a read followed by a write, and nothing locks
\* self.stats: another loop thread can write between the two. The three reads
\* are one step here, the three writes and last_batch_at = now() another.
read_stats(t) ==
    /\ pc[t] = "stats"
    /\ HasResult(t)
    /\ stats_read' = [stats_read EXCEPT ![t] = Counters(stats)]
    /\ pc' = [pc EXCEPT ![t] = "stats_write"]
    /\ UNCHANGED <<store, worker, locals, rows_updated, consulted, snapshot, calls_after_stop, ingestion, fout>>

\* The writes of the `+=`: what was read plus the result's numbers. The time
\* read after batch b is written b.
write_stats(t) ==
    /\ pc[t] = "stats_write"
    /\ stats' = [stats EXCEPT
            !.total_batches_processed = stats_read[t][1] + 1,
            !.total_events_processed = stats_read[t][2] + Result(t).events_processed,
            !.total_cost = stats_read[t][3] + Result(t).cost,
            !.last_batch_at = Result(t).batch_id]
    /\ EndIteration(t)
    /\ UNCHANGED <<store, is_running, thread, is_trained, caller, snapshot, calls_after_stop, ingestion, fout>>

\* else: nothing was processed, the stats are left alone.
no_result(t) ==
    /\ pc[t] = "stats"
    /\ ~HasResult(t)
    /\ EndIteration(t)
    /\ UNCHANGED <<store, worker, snapshot, calls_after_stop, ingestion, fout>>

update_stats(t) ==
    \/ read_stats(t)
    \/ write_stats(t)
    \/ no_result(t)

\* time.sleep(self.interval_seconds) ends (try body and except clause alike)
wake(t) ==
    /\ pc[t] = "sleep"
    /\ pc' = [pc EXCEPT ![t] = "top"]
    /\ batch_size' = [batch_size EXCEPT ![t] = 0]
    /\ UNCHANGED <<store, worker, batch_events, batch_id, processing_time, iteration, snapshot, calls_after_stop, ingestion, fout>>

\* --------------------------------------------------------- start / stop
Unborn == {t \in Threads : pc[t] = "unborn"}
NewThread == CHOOSE t \in Unborn : \A u \in Unborn : t <= u

start_unguarded ==
    /\ caller = "idle"
    /\ Unborn # {}
    /\ is_running' = TRUE
    /\ thread' = NewThread
    /\ pc' = [pc EXCEPT ![NewThread] = "begin"]
    /\ calls_after_stop' = [calls_after_stop EXCEPT !.n = 0]
    /\ UNCHANGED <<store, stats, is_trained, caller, locals, iteration, snapshot, ingestion, fout>>

\* SmartBackGroundWorker.start
start ==
    /\ caller = "idle"
    /\ IF is_running
       THEN UNCHANGED vars
       ELSE /\ Unborn # {}
            /\ is_running' = TRUE
            /\ thread' = NewThread
            /\ pc' = [pc EXCEPT ![NewThread] = "begin"]
            /\ calls_after_stop' = [calls_after_stop EXCEPT !.n = 0]
            /\ UNCHANGED <<store, stats, is_trained, caller, locals, iteration, snapshot, ingestion, fout>>

stop_unguarded ==
    /\ caller = "idle"
    /\ is_running' = FALSE
    /\ caller' = IF thread # NoThread THEN "joining" ELSE "idle"
    /\ UNCHANGED <<store, thread, stats, is_trained, pc, locals, iteration, snapshot, calls_after_stop, ingestion, fout>>

stop_interrupt ==
    /\ caller = "idle"
    /\ IF ~is_running
       THEN UNCHANGED vars
       ELSE /\ is_running' = FALSE
            /\ caller' = "idle"
            /\ pc' = [pc EXCEPT ![thread] = "dead"]
            /\ UNCHANGED <<store, thread, stats, is_trained, locals, iteration, snapshot, calls_after_stop, ingestion, fout>>

\* SmartBackGroundWorker.stop up to the join: the flag is cleared, then
\* self.thread.join(timeout=5) blocks the caller.
stop ==
    /\ caller = "idle"
    /\ IF ~is_running
       THEN UNCHANGED vars
       ELSE /\ is_running' = FALSE
            /\ caller' = IF thread # NoThread THEN "joining" ELSE "idle"
            /\ UNCHANGED <<store, thread, stats, is_trained, pc, locals, iteration, snapshot, calls_after_stop, ingestion, fout>>

join_forever ==
    /\ caller = "joining"
    /\ pc[thread] = "dead"
    /\ caller' = "idle"
    /\ UNCHANGED <<store, is_running, thread, stats, is_trained, pc, locals, iteration, snapshot, calls_after_stop, ingestion, fout>>

\* Where a loop thread can stay longer than the join timeout: the interval
\* sleep (10 s or 30 s), the simulated processing sleep and the store calls.
BlockingPcs == {"sleep", "process"} \cup StorePcs

\* join(timeout=5) returns: the thread has ended, or the timeout has passed
\* with the thread still at a blocking call. stop() then returns.
join_return ==
    /\ caller = "joining"
    /\ pc[thread] = "dead" \/ pc[thread] \in BlockingPcs
    /\ caller' = "idle"
    /\ UNCHANGED <<store, is_running, thread, stats, is_trained, pc, locals, iteration, snapshot, calls_after_stop, ingestion, fout>>

\* SmartBackGroundWorker.is_alive
is_alive == thread # NoThread /\ pc[thread] \notin {"unborn", "dead"}

\* ------------------------------------------------------- specifications
worker_loop(t) ==
    \/ loop_begin(t)
    \/ loop_check(t)
    \/ size_count(t)
    \/ size_recent(t)
    \/ process_batch(t)
    \/ update_stats(t)
    \/ wake(t)
    \/ db_error(t)

Next ==
    \/ \E i \in Items : insert_event(i)
    \/ start
    \/ stop
    \/ join_return
    \/ \E t \in Threads : worker_loop(t)

Spec == Init /\ [][Next]_vars

\* The Scheduler with the progress the threads are sure to make: the join
\* returns when its thread has ended or its timeout has passed, and a loop
\* thread takes its steps that do not block (the start of the loop, the loop
\* test, the stats update). A sleep or a store call may last for ever.
Fairness ==
    /\ WF_vars(join_return)
    /\ \A t \in Threads : WF_vars(loop_begin(t) \/ loop_check(t) \/ update_stats(t))

SpecFair == Spec /\ Fairness

\* -------------------------------- the Scheduler kept running, store sound
\* start() is called and stop() never is; every store call succeeds and
\* returns, and every sleep ends: the loop thread, once started, takes each
\* step of _worker_loop that it has reached. The producer is under no
\* obligation, and adds a finite number of events.
loop_step(t) ==
    \/ loop_begin(t)
    \/ loop_check(t)
    \/ size_count(t)
    \/ size_recent(t)
    \/ process_batch(t)
    \/ update_stats(t)
    \/ wake(t)

NextRun ==
    \/ \E i \in Items : insert_event(i)
    \/ start
    \/ \E t \in Threads : loop_step(t)

SpecRun == Init /\ [][NextRun]_vars /\ \A t \in Threads : WF_vars(loop_step(t))

\* The Scheduler, with the calls that return after a stop() counted.
InitObserved == Constructed /\ calls_after_stop = [observed |-> TRUE, n |-> 0]

SpecObserved == InitObserved /\ [][Next]_vars

\* ---------------------------------------- stop() called during the sleep
\* The same Scheduler with a caller who calls stop() only while the loop
\* thread is in time.sleep(self.interval_seconds).
stop_during_sleep ==
    /\ is_running
    /\ thread # NoThread
    /\ pc[thread] = "sleep"
    /\ stop

NextSleepStop ==
    \/ \E i \in Items : insert_event(i)
    \/ start
    \/ stop_during_sleep
    \/ join_return
    \/ \E t \in Threads : worker_loop(t)

SpecSleepStop == Init /\ [][NextSleepStop]_vars

\* ------------------------------------------------------------ get_stats
get_stats_alias ==
    /\ snapshot.ref = "none"
    /\ snapshot' = [ref |-> "self", runtime |-> stats.started_at # NoThread,
                    val |-> NoSnapshot.val]
    /\ UNCHANGED <<store, worker, pc, locals, iteration, calls_after_stop, ingestion, fout>>

\* SmartBackGroundWorker.get_stats: stats = self.stats.copy(); the runtime is
\* added to the copy if started_at is set; return stats.
get_stats ==
    /\ snapshot.ref = "none"
    /\ snapshot' = [ref |-> "copy", runtime |-> stats.started_at # NoThread,
                    val |-> stats]
    /\ UNCHANGED <<store, worker, pc, locals, iteration, calls_after_stop, ingestion, fout>>

\* What the caller reads in the dictionary it was given.
returned_stats == IF snapshot.ref = "self" THEN stats ELSE snapshot.val

\* A number no loop writes.
Scribble == 0 - 1

\* The caller assigns to an entry of the dictionary it was given.
write_snapshot ==
    /\ snapshot.ref # "none"
    /\ returned_stats.total_cost # Scribble
    /\ IF snapshot.ref = "self"
       THEN /\ stats' = [stats EXCEPT !.total_cost = Scribble]
            /\ UNCHANGED snapshot
       ELSE /\ snapshot' = [snapshot EXCEPT !.val.total_cost = Scribble]
            /\ UNCHANGED stats
    /\ UNCHANGED <<store, is_running, thread, is_trained, caller, pc, locals,
                   iteration, calls_after_stop, ingestion, fout>>

\* The Scheduler started once, with a caller of get_stats().
NextStats ==
    \/ \E i \in Items : insert_event(i)
    \/ start
    \/ get_stats
    \/ write_snapshot
    \/ \E t \in Threads : worker_loop(t)

SpecStats == Init /\ [][NextStats]_vars

\* ------------------------------------------- process_batch called directly
\* processor = BatchProcessor(batch_size=n); processor.process_batch(), one
\* call after the other by a single caller.
call_process_batch ==
    /\ pc[Direct] \in {"ready", "returned", "raised"}
    /\ \E n \in 1..MaxReq : batch_size' = [batch_size EXCEPT ![Direct] = n]
    /\ batch_events' = [batch_events EXCEPT ![Direct] = {}]
    /\ batch_id' = [batch_id EXCEPT ![Direct] = NoBatch]
    /\ processing_time' = [processing_time EXCEPT ![Direct] = 0]
    /\ rows_updated' = [rows_updated EXCEPT ![Direct] = 0]
    /\ pc' = [pc EXCEPT ![Direct] = "fetch"]
    /\ UNCHANGED <<store, worker, stats_read, consulted, snapshot, calls_after_stop, ingestion, fout>>

NextProc ==
    \/ \E i \in Items : insert_event(i)
    \/ call_process_batch
    \/ process_batch(Direct)
    \/ db_error(Direct)

SpecProc == Init /\ [][NextProc]_vars

\* ------------------------------------------------- POST /ingest_event
\* main.py ingest_event with the store at work:
\* event_id = db.insert_event(event_data); if event_id: the counters are
\* incremented and success = True is returned, else success = False with the
\* duplicate message.
ingest_event(i) ==
    /\ events' = inserted(i)
    /\ IF returned_id(i) # 0
       THEN /\ ingestion_stats' =
                  [total_events |-> ingestion_stats.total_events + 1,
                   total_data_kb |-> ingestion_stats.total_data_kb + data_size_kb(i),
                   events_per_type |->
                       [ingestion_stats.events_per_type EXCEPT ![event_type(i)] = @ + 1]]
            /\ response' = [status |-> 200, success |-> TRUE, event_id |-> i,
                            message |-> "Event ingested successfully"]
       ELSE /\ UNCHANGED ingestion_stats
            /\ response' = [status |-> 200, success |-> FALSE, event_id |-> i,
                            message |-> "Event already exists (duplicate)"]
    /\ UNCHANGED <<batches, cost_metrics, worker, pc, locals, iteration, snapshot,
                   calls_after_stop, fout>>

\* ingest_event when db.insert_event raises: the transaction is rolled back
\* and the handler raises HTTPException(status_code=500).
ingest_failed(i) ==
    /\ response' = [status |-> 500, success |-> FALSE, event_id |-> i, message |-> "error"]
    /\ UNCHANGED <<store, ingestion_stats, worker, pc, locals, iteration, snapshot,
                   calls_after_stop, fout>>

\* The ingestion endpoint with process_batch called directly.
NextIngest ==
    \/ \E i \in Items : ingest_event(i)
    \/ \E i \in Items : ingest_failed(i)
    \/ call_process_batch
    \/ process_batch(Direct)
    \/ db_error(Direct)

SpecIngest == Init /\ [][NextIngest]_vars

\* ------------------------------- direct calls on a store others write to
\* The events table belongs to a database that other clients use as well. The
\* code of this repository never removes a row; here another client does,
\* which is the one way the UPDATE of the mark step can report fewer rows than
\* the run fetched. The ids of removed rows are not used again (SERIAL).
Gone == 0 - 1

delete_event(i) ==
    /\ events[i].present
    /\ events' = [events EXCEPT ![i] =
           [present |-> FALSE, copies |-> 0, processed |-> FALSE, batch_id |-> Gone]]
    /\ UNCHANGED <<batches, cost_metrics, worker, pc, locals, iteration, snapshot, calls_after_stop, ingestion, fout>>

\* Database.insert_event under a new id.
insert_fresh(i) ==
    /\ events[i].batch_id # Gone
    /\ insert_event(i)

NextExt ==
    \/ \E i \in Items : insert_fresh(i)
    \/ \E i \in Items : delete_event(i)
    \/ call_process_batch
    \/ process_batch(Direct)
    \/ db_error(Direct)

SpecExt == Init /\ [][NextExt]_vars

\* The partial-update warnings process_batch has logged, by batch id:
\* mark_events_as_processed prints rows_updated and returns nothing, and
\* process_batch compares nothing with the number of fetched items.
warnings == {}

\* --------------------------------------- the pure functions, on their own
Sizes == 0..MaxSize
Durations == 0..MaxDuration

\* One application per behaviour, on inputs drawn from the bounded sets.
\* calculate_cost applied to one batch size and two processing durations
fn_calculate_cost ==
    /\ fout.fn = "none"
    /\ \E s \in Sizes, t1 \in Durations, t2 \in Durations :
          fout' = [fn |-> "calculate_cost", a |-> s, b |-> t1, c |-> t2,
                   r1 |-> calculate_cost(s, t1), r2 |-> calculate_cost(s, t2),
                   r3 |-> Ratio(0, 1)]
    /\ UNCHANGED <<store, worker, pc, locals, iteration, snapshot, calls_after_stop, ingestion>>

\* The cost-per-item of a batch of s items: r3 as save_cost_metrics stores it,
\* r1 as the result of process_batch reports it (a result exists for s > 0).
fn_cost_per_event ==
    /\ fout.fn = "none"
    /\ \E s \in Sizes, t \in Durations :
          LET cost == calculate_cost(s, t)
          IN  fout' = [fn |-> "cost_per_event", a |-> s, b |-> t, c |-> cost,
                       r1 |-> IF s > 0 THEN result_cost_per_event(cost, s) ELSE 0,
                       r2 |-> 0,
                       r3 |-> stored_cost_per_event(cost, s)]
    /\ UNCHANGED <<store, worker, pc, locals, iteration, snapshot, calls_after_stop, ingestion>>

\* predict_optimal_batch_size applied to a raw model output
fn_predict ==
    /\ fout.fn = "none"
    /\ \E raw \in RawOutputs :
          fout' = [fn |-> "predict", a |-> raw, b |-> 0, c |-> 0,
                   r1 |-> predict_optimal_batch_size(raw), r2 |-> 0,
                   r3 |-> Ratio(0, 1)]
    /\ UNCHANGED <<store, worker, pc, locals, iteration, snapshot, calls_after_stop, ingestion>>

\* get_smart_batch_size applied to query results and a raw model output
fn_get_smart_batch_size ==
    /\ fout.fn = "none"
    /\ \E count \in 0..MaxItems, recent \in 0..MaxBatches, raw \in RawOutputs :
          fout' = [fn |-> "get_smart_batch_size", a |-> raw, b |-> count, c |-> recent,
                   r1 |-> get_smart_batch_size(count, recent, raw), r2 |-> 0,
                   r3 |-> Ratio(0, 1)]
    /\ UNCHANGED <<store, worker, pc, locals, iteration, snapshot, calls_after_stop, ingestion>>

NextFn ==
    \/ fn_calculate_cost
    \/ fn_cost_per_event
    \/ fn_predict
    \/ fn_get_smart_batch_size

SpecFn == Init /\ [][NextFn]_vars

\* ================================================================ claims
BatchIds == 1..Len(batches)
InProcessBatch == {t \in Threads : pc[t] \in ProcessBatchPcs}

\* C1: at most one process_batch call of the Scheduler is in progress at any
\* time, for every interleaving of start(), stop() and loop steps.
C1_NoOverlap == Cardinality(InProcessBatch) <= 1

\* C2: every item belongs to the fetched set of at most one Batch record.
C2_ClaimedByAtMostOneBatch ==
    \A b1 \in BatchIds, b2 \in BatchIds :
        b1 # b2 => batches[b1].fetched \cap batches[b2].fetched = {}

\* C3: of two process_batch calls made one after the other, the second
\* starting after the first has returned, no item is fetched by both: the
\* items of a batch whose run has returned (its cost metric is saved, the last
\* step before the return) are fetched by no later run.
Returned(b) == \E m \in cost_metrics : m.batch_id = b

C3_SequentialCallsDisjoint ==
    \A b1 \in BatchIds :
        Returned(b1) =>
            /\ \A b2 \in BatchIds :
                  b1 < b2 => batches[b1].fetched \cap batches[b2].fetched = {}
            /\ batch_id[Direct] # b1 => batches[b1].fetched \cap batch_events[Direct] = {}

C3_Witness ==
    /\ Len(batches) >= 2
    /\ Returned(1)
    /\ Returned(2)
    /\ batches[1].fetched # {}
    /\ batches[2].fetched # {}

\* C4: the cost of a batch of s items is fixed_cost + variable_cost * s, the
\* same for any two processing durations.
C4_CostIndependentOfDuration ==
    fout.fn = "calculate_cost" =>
        /\ fout.r1 = fout.r2
        /\ fout.r1 = FIXED_COST + VARIABLE_COST_PER_EVENT * fout.a

C4_Witness ==
    /\ fout.fn = "calculate_cost"
    /\ fout.a > 0
    /\ fout.b # fout.c
    /\ fout.r1 = fout.r2

\* C5 as stated: the cost-per-item of the result and the one stored in the
\* cost metric both equal cost / batch_size for batch_size > 0, and the stored
\* one is 0 for batch_size = 0.
C5_CostPerItemExact ==
    fout.fn = "cost_per_event" =>
        /\ fout.a > 0 => /\ fout.r1 * fout.a = fout.c
                         /\ fout.r3.num * fout.a = fout.c * fout.r3.den
        /\ fout.a = 0 => fout.r3.num = 0

\* C5 amended: the stored cost-per-item equals cost / batch_size for
\* batch_size > 0 and is 0 for batch_size = 0 (no division by zero); the
\* cost-per-item of the result is cost / batch_size rounded to 4 decimals,
\* that is within half of 1/10000 of it.
Abs(n) == IF n < 0 THEN 0 - n ELSE n

C5_CostPerItemRounded ==
    fout.fn = "cost_per_event" =>
        /\ fout.r3.den # 0
        /\ fout.a > 0 => /\ fout.r3.num * fout.a = fout.c * fout.r3.den
                         /\ 2 * Abs(fout.r1 * fout.a - fout.c) <= fout.a
        /\ fout.a = 0 => fout.r3.num = 0

C5_Witness ==
    /\ fout.fn = "cost_per_event"
    /\ fout.a = 3
    /\ fout.r1 * fout.a # fout.c
    /\ fout.r3 = Ratio(fout.c, 3)

\* C6: the size the predictor returns, and the size get_smart_batch_size
\* returns to the loop, is in [20, 200] and a multiple of 10, for every raw
\* model output and every context.
C6_PredictedSizeValid ==
    fout.fn \in {"predict", "get_smart_batch_size"} =>
        /\ fout.r1 >= MIN_BATCH_SIZE
        /\ fout.r1 <= MAX_BATCH_SIZE
        /\ fout.r1 % ROUND_STEP = 0

C6_Witness ==
    /\ fout.fn = "get_smart_batch_size"
    /\ is_trained
    /\ fout.b > 0
    /\ fout.c # NoBatch
    /\ fout.a % ROUND_STEP = 5
    /\ fout.r1 = fout.a + 5

\* C7: a sizing step of the loop that sees a pending count of 0, or no
\* completed batch, or runs with the predictor not ready, chooses 50.
C7_FallbackIsDefault ==
    [][\A t \in Threads :
          (\/ pc[t] = "size_count" /\ pc'[t] = "fetch" /\ unprocessed_count = 0
           \/ pc[t] = "size_recent" /\ pc'[t] = "fetch"
                 /\ (recent_batch = NoBatch \/ ~is_trained))
          => batch_size'[t] = DEFAULT_BATCH_SIZE]_vars

C7_Witness ==
    /\ ~is_trained
    /\ stats.ml_predictions_used > 0
    /\ \E t \in Threads : pc[t] = "fetch" /\ batch_size[t] = DEFAULT_BATCH_SIZE

\* C8: start() while the Scheduler is running spawns no thread and leaves the
\* thread handle, the running flag and the stats unchanged.
C8_StartWhileRunningNoOp ==
    [][(is_running /\ start) => UNCHANGED <<thread, pc, stats, is_running>>]_vars

C8_Witness ==
    /\ is_running
    /\ caller = "idle"
    /\ thread # NoThread
    /\ Unborn # {}
    /\ stats.total_batches_processed > 0

\* C9: stop() while the Scheduler is not running changes neither the running
\* flag, nor the thread handle, nor the stats, and joins nothing.
C9_StopWhileStoppedNoOp ==
    [][(~is_running /\ stop) => UNCHANGED <<is_running, thread, stats, caller, pc>>]_vars

C9_Witness ==
    /\ ~is_running
    /\ caller = "idle"
    /\ thread # NoThread
    /\ pc[thread] # "dead"
    /\ stats.total_batches_processed > 0

\* C10: start(), stop() and the start of a loop leave the cumulative counters
\* as they are; the loop that starts is the one of the current thread handle
\* and sets started_at to its own start time, which no older loop overwrites.
C10_RestartKeepsCounters ==
    [][/\ (is_running' # is_running \/ thread' # thread \/ caller' # caller)
              => Counters(stats') = Counters(stats)
       /\ \A t \in Threads :
              (pc[t] = "begin" /\ pc'[t] # "begin") =>
                  /\ t = thread
                  /\ stats'.started_at = t
                  /\ Counters(stats') = Counters(stats)
       /\ (thread' # NoThread /\ pc'[thread'] # "begin")
              => stats'.started_at = thread']_vars

C10_Witness ==
    /\ thread = 2
    /\ stats.started_at = 2
    /\ pc[2] = "top"
    /\ stats.total_batches_processed > 0

\* C11: an idle iteration (process_batch fetched nothing and returns None)
\* has created no batch row and no cost metric, holds no item, and has itself
\* written none of the stats: its sizing has not incremented
\* ml_predictions_used, and its stats update reads and writes no counter.
IdleIterations == {t \in Threads : pc[t] = "stats" /\ batch_events[t] = {}}

C11_IdleIterationChangesNothing ==
    \A t \in IdleIterations :
        /\ ~HasResult(t)
        /\ batch_id[t] = NoBatch
        /\ stats_read[t] = NoRead
        /\ ~consulted[t]

\* C12: a process_batch call that meets no store failure and finds no more
\* pending items than its requested size fetches every pending item; when it
\* returns its result, the batch it created is the one new batch and holds
\* exactly the fetched items, events_processed is their number n, cost is
\* fixed cost + variable cost * n (0.215 for n = 23), and every fetched item is
\* flagged processed with the new batch id as its batch reference.
C12_Postcondition ==
    LET b == batch_id[Direct]
        F == batch_events[Direct]
    IN  /\ HasResult(Direct)
        /\ b = Len(batches)
        /\ batches[b].status = "completed"
        /\ batches[b].fetched = F
        /\ batches[b].batch_size = Cardinality(F)
        /\ Result(Direct).batch_id = b
        /\ Result(Direct).events_processed = Cardinality(F)
        /\ Result(Direct).cost = FIXED_COST + VARIABLE_COST_PER_EVENT * Cardinality(F)
        /\ \A i \in F : events[i].processed /\ events[i].batch_id = b
        /\ \A i \in Items \ F : events[i].batch_id # b

C12_ProcessesEveryPendingItem ==
    [][/\ (/\ pc[Direct] = "fetch"
           /\ pc'[Direct] \in {"create", "returned"}
           /\ unprocessed_count <= batch_size[Direct])
              => batch_events'[Direct] = Unprocessed
       /\ (pc[Direct] = "save" /\ pc'[Direct] = "returned") => C12_Postcondition'
       /\ calculate_cost(23, 0) = 2150]_vars

C12_Witness ==
    /\ pc[Direct] = "returned"
    /\ batch_size[Direct] = 3
    /\ batch_events[Direct] = {1, 2}
    /\ batch_id[Direct] = 1
    /\ \A i \in {1, 2} : events[i].processed /\ events[i].batch_id = 1

\* C13: when stop() is called while the loop thread is in its sleep between
\* two iterations, then once stop() has returned (and start() has not been
\* called again) is_alive() is false.
C13_NotAliveAfterStop == (caller = "idle" /\ ~is_running) => ~is_alive

\* C14: an exception raised in an iteration of the loop (a failed store call
\* of the sizing or of process_batch) does not end the loop thread: the thread
\* goes to the interval sleep, after the sleep to the loop test, and from the
\* loop test, while the running flag is set, into the next iteration; a loop
\* thread ends only at the loop test with the flag cleared.
C14_ExceptionsStayInLoop ==
    [][\A t \in Threads :
          /\ db_error(t) => pc'[t] = "sleep"
          /\ (pc[t] # "dead" /\ pc'[t] = "dead") => (pc[t] = "top" /\ ~is_running)
          /\ (pc[t] = "sleep" /\ pc'[t] # "sleep") => pc'[t] = "top"
          /\ (pc[t] = "top" /\ pc'[t] # "top" /\ is_running) => pc'[t] = "size_count"]_vars

\* The only loop thread ever started has failed twice in a row after creating
\* a batch row and has begun another iteration.
C14_Witness ==
    /\ pc[1] = "size_count"
    /\ pc[2] = "unborn"
    /\ Len(batches) = 2
    /\ \A b \in BatchIds : batches[b].status = "processing"
    /\ is_running

\* C15: stop() always returns: a stop() that waits in join(timeout=5) comes
\* back to its caller, also when the loop thread does not end (it stays in a
\* sleep or a store call), and the running flag is cleared when it returns.
C15_StopReturns ==
    /\ (caller = "joining") ~> (caller = "idle")
    /\ [][(caller = "joining" /\ caller' = "idle") => ~is_running']_vars

\* stop() has returned and the loop thread is still alive, in its sleep.
C15_Witness ==
    /\ caller = "idle"
    /\ ~is_running
    /\ is_alive
    /\ pc[thread] = "sleep"

\* C16: the stats accumulate the results: the batches whose result a loop
\* iteration has counted (the run has returned and the iteration's stats
\* update is done) are as many as total_batches_processed, their sizes add up
\* to total_events_processed and their costs to total_cost.
Counted == {b \in BatchIds : Returned(b) /\ \A t \in Threads : batch_id[t] # b}

RECURSIVE SumSize(_)
SumSize(B) ==
    IF B = {} THEN 0
    ELSE LET b == CHOOSE x \in B : TRUE
         IN  batches[b].batch_size + SumSize(B \ {b})

RECURSIVE SumCost(_)
SumCost(B) ==
    IF B = {} THEN 0
    ELSE LET b == CHOOSE x \in B : TRUE
         IN  batches[b].processing_cost + SumCost(B \ {b})

C16_TotalsAreSums ==
    /\ stats.total_batches_processed = Cardinality(Counted)
    /\ stats.total_events_processed = SumSize(Counted)
    /\ stats.total_cost = SumCost(Counted)

\* C17: an item is mutated at most once: no step deletes an item, turns a
\* processed item back to unprocessed, or overwrites a batch reference that
\* has been set.
C17_ItemMutatedAtMostOnce ==
    [][\A i \in Items :
          /\ events[i].present => events'[i].present
          /\ events[i].processed => events'[i].processed
          /\ events[i].batch_id # NoBatch => events'[i].batch_id = events[i].batch_id]_vars

\* C18: a batch row is created with status processing and no duration or
\* cost; a step that changes a row takes it from processing to completed, so
\* a row is changed at most once and a completed row never again; no row is
\* removed.
C18_BatchLifecycle ==
    [][/\ Len(batches') >= Len(batches)
       /\ \A b \in 1..Len(batches') :
             IF b <= Len(batches)
             THEN \/ batches'[b] = batches[b]
                  \/ /\ batches[b].status = "processing"
                     /\ batches'[b].status = "completed"
                     /\ batches'[b].batch_size = batches[b].batch_size
                     /\ batches'[b].total_data_kb = batches[b].total_data_kb
             ELSE /\ batches'[b].status = "processing"
                  /\ batches'[b].processing_time_seconds = 0
                  /\ batches'[b].processing_cost = 0]_vars

\* A second batch is being processed after a first one was completed with a
\* duration and a cost.
C18_Witness ==
    /\ Len(batches) = 2
    /\ batches[1].status = "completed"
    /\ batches[1].processing_cost > 0
    /\ batches[2].status = "processing"
    /\ \E t \in Threads : pc[t] = "update" /\ batch_id[t] = 2

\* C19: at most one loop thread of the Scheduler is inside _worker_loop at any
\* time, whatever start() and stop() calls were made, so that the stats have
\* one writer.
LoopThreads == {t \in Threads : pc[t] \notin {"unborn", "dead"}}

C19_SingleLoopThread == Cardinality(LoopThreads) <= 1

\* C20: ml_predictions_used changes only by the sizing of an iteration that
\* saw a pending count > 0 and a completed batch with the predictor ready, by
\* exactly 1; a sizing that falls back to the fixed size leaves it unchanged.
C20_CountsPredictorDecisions ==
    [][stats'.ml_predictions_used # stats.ml_predictions_used =>
          /\ stats'.ml_predictions_used = stats.ml_predictions_used + 1
          /\ unprocessed_count > 0
          /\ recent_batch # NoBatch
          /\ is_trained
          /\ \E t \in Threads : pc[t] = "size_recent" /\ pc'[t] = "fetch"]_vars

\* C21 as stated: an iteration in which the sizing or process_batch raises has
\* changed none of the stats, ml_predictions_used included: when the exception
\* is raised the iteration's sizing has not incremented that counter (stated
\* for a Scheduler whose predictor is ready).
C21_FailedIterationKeepsStats ==
    [][\A t \in Threads :
          (is_trained /\ db_error(t)) => (~consulted[t] /\ stats' = stats)]_vars

\* C21 amended: an iteration in which the sizing or process_batch raises
\* writes none of total batches, total items, total cost and last_batch_at:
\* the step that raises leaves the stats as they are, and these four are
\* written only by the stats update of an iteration whose process_batch
\* returned a result. ml_predictions_used is written only by the sizing step,
\* also in an iteration that fails later.
C21_FailedIterationKeepsTotals ==
    [][/\ \A t \in Threads : db_error(t) => stats' = stats
       /\ (Counters(stats') # Counters(stats) \/ stats'.last_batch_at # stats.last_batch_at)
              => \E t \in Threads : /\ pc[t] = "stats_write"
                                    /\ HasResult(t)
                                    /\ pc'[t] = "sleep"
       /\ stats'.ml_predictions_used # stats.ml_predictions_used
              => \E t \in Threads : pc[t] = "size_recent" /\ consulted'[t]]_vars

\* The only loop thread sleeps after an iteration that consulted the predictor
\* and then failed: a prediction is counted and no batch is.
C21_Witness ==
    /\ pc[1] = "sleep"
    /\ pc[2] = "unborn"
    /\ stats.ml_predictions_used = 1
    /\ Counters(stats) = NoRead
    /\ stats.last_batch_at = NoBatch

\* C22: when the mark step has updated fewer items than the run fetched, the
\* run records a partial-update mismatch for its batch (and goes on to
\* finalize the batch and to return the fetched size as events_processed).
PartialUpdate(p) ==
    /\ pc[p] \in {"update", "save", "returned"}
    /\ batch_events[p] # {}
    /\ rows_updated[p] < Cardinality(batch_events[p])

C22_PartialUpdateRecorded ==
    /\ PartialUpdate(Direct) => batch_id[Direct] \in warnings
    /\ (PartialUpdate(Direct) /\ pc[Direct] = "returned") =>
           /\ batches[batch_id[Direct]].status = "completed"
           /\ Result(Direct).events_processed = Cardinality(batch_events[Direct])

\* C23: a batch row left in status processing by a run that failed between
\* create_batch_record and update_batch_record (no run holds its id any more)
\* is never changed again: no step sets it to completed or to any other
\* status.
Abandoned == {b \in BatchIds : batches[b].status = "processing"
                                  /\ \A p \in Procs : batch_id[p] # b}

C23_AbandonedBatchStaysProcessing ==
    [][\A b \in Abandoned : /\ b \in 1..Len(batches')
                            /\ batches'[b] = batches[b]
                            /\ \A p \in Procs : batch_id'[p] # b]_vars

\* The first batch was abandoned by a failed run and a later run has
\* completed the second one.
C23_Witness ==
    /\ 1 \in Abandoned
    /\ Len(batches) = 2
    /\ batches[2].status = "completed"
    /\ Returned(2)

\* C24: the fetch of process_batch with requested size n returns exactly
\* min(n, number of unprocessed items) items, all unprocessed when fetched,
\* and the oldest ones: no unprocessed item left out has an earlier timestamp
\* than a fetched one.
C24_FetchesOldestPending ==
    [][(pc[Direct] = "fetch" /\ pc'[Direct] \in {"create", "returned"}) =>
          LET F == batch_events'[Direct]
          IN  /\ Cardinality(F) = Min(batch_size[Direct], unprocessed_count)
              /\ F \subseteq Unprocessed
              /\ \A i \in F, j \in Unprocessed \ F : timestamp(i) <= timestamp(j)]_vars

\* One item was requested while two were pending: the older one is fetched.
C24_Witness ==
    /\ pc[Direct] = "create"
    /\ batch_size[Direct] = 1
    /\ batch_events[Direct] = {1}
    /\ 2 \in Unprocessed
    /\ timestamp(1) < timestamp(2)

\* C25: a loop thread leaves the work of an iteration (sizing, process_batch,
\* stats update), whether it made a batch, was idle or raised, only into the
\* interval sleep; it leaves the sleep only to the loop test; it enters the
\* sizing only from the loop test and process_batch only from the sizing. So
\* one sleep lies between two iterations and between two process_batch calls.
IterationPcs == StorePcs \cup {"process", "stats", "stats_write"}

C25_OneSleepBetweenIterations ==
    [][\A t \in Threads :
          /\ (pc[t] \in IterationPcs /\ pc'[t] \notin IterationPcs) => pc'[t] = "sleep"
          /\ (pc[t] = "sleep" /\ pc'[t] # "sleep") => pc'[t] = "top"
          /\ (pc[t] # "size_count" /\ pc'[t] = "size_count") => pc[t] = "top"
          /\ (pc[t] # "top" /\ pc'[t] = "top") => pc[t] \in {"begin", "sleep"}
          /\ (pc[t] # "fetch" /\ pc'[t] = "fetch") => pc[t] \in {"size_count", "size_recent"}]_vars

\* The only loop thread is at the sizing of a further iteration after an
\* iteration with a batch and one that failed.
C25_Witness ==
    /\ pc[1] = "size_count"
    /\ pc[2] = "unborn"
    /\ stats.total_batches_processed = 1
    /\ Abandoned # {}

\* C26: stop() takes effect at the loop test only: the step that clears the
\* running flag, and the return of the join, change no loop thread's position
\* or locals and nothing in the store; a loop thread ends only at the loop
\* test, where it ends whenever it finds the flag cleared; a thread that has
\* ended takes no further step, so it starts no further process_batch call.
C26_StopTakesEffectAtLoopTest ==
    [][/\ (is_running /\ ~is_running') => UNCHANGED <<pc, locals, iteration, store, stats>>
       /\ (caller = "joining" /\ caller' = "idle")
              => UNCHANGED <<pc, locals, iteration, store, stats>>
       /\ \A t \in Threads :
             /\ (pc[t] # "dead" /\ pc'[t] = "dead") => (pc[t] = "top" /\ ~is_running)
             /\ (pc[t] = "top" /\ pc'[t] # "top" /\ ~is_running) => pc'[t] = "dead"
             /\ pc[t] = "dead" =>
                    /\ pc'[t] = "dead"
                    /\ batch_size'[t] = batch_size[t]
                    /\ batch_events'[t] = batch_events[t]
                    /\ batch_id'[t] = batch_id[t]]_vars

\* start() and stop() were called once each; the iteration that was in flight
\* goes on after stop() has returned and is about to write its batch into the
\* stats.
C26_Witness ==
    /\ ~is_running
    /\ caller = "idle"
    /\ thread = 1
    /\ pc[2] = "unborn"
    /\ pc[1] = "stats_write"

\* C27: cost metric rows are only added; every row names a batch whose status
\* is completed; no batch has two rows; and the step by which process_batch
\* returns a result adds exactly one row, with the batch's id, size, volume,
\* duration and cost per item.
MetricsOf(b) == {m \in cost_metrics : m.batch_id = b}

C27_OneMetricPerCompletedBatch ==
    [][/\ cost_metrics \subseteq cost_metrics'
       /\ \A m \in cost_metrics' :
             /\ m.batch_id \in 1..Len(batches')
             /\ batches'[m.batch_id].status = "completed"
             /\ Cardinality({n \in cost_metrics' : n.batch_id = m.batch_id}) = 1
       /\ (pc[Direct] # "returned" /\ pc'[Direct] = "returned" /\ batch_events'[Direct] # {}) =>
             LET b == batch_id[Direct]
                 n == Cardinality(batch_events[Direct])
             IN  /\ cost_metrics' # cost_metrics
                 /\ cost_metrics' \ cost_metrics =
                       {[batch_id |-> b,
                         batch_size |-> batches[b].batch_size,
                         total_data_kb |-> batches[b].total_data_kb,
                         processing_time_seconds |-> batches[b].processing_time_seconds,
                         cost_per_event |-> Ratio(batches[b].processing_cost, n)]}
       /\ cost_metrics' # cost_metrics => pc'[Direct] = "returned"]_vars

\* Two calls have returned a result, the second after asking for more items
\* than were pending: each batch has its own row.
C27_Witness ==
    /\ pc[Direct] = "returned"
    /\ Len(batches) = 2
    /\ MetricsOf(1) # {}
    /\ MetricsOf(2) # {}
    /\ batch_id[Direct] = 2
    /\ batch_size[Direct] > Cardinality(batch_events[Direct])

\* C28: get_stats() changes neither the stats, nor the running flag, nor the
\* thread handle, and returns the stats as they are; the dictionary it
\* returned is a copy: a later write of the loop to the stats does not change
\* what the caller reads in it, and a write of the caller to it does not
\* change the stats.
C28_GetStatsIsSnapshot ==
    [][/\ (snapshot.ref = "none" /\ snapshot'.ref # "none") =>
             /\ UNCHANGED <<stats, is_running, thread>>
             /\ returned_stats' = stats
             /\ snapshot'.runtime = (stats.started_at # NoThread)
       /\ (snapshot.ref # "none" /\ stats' # stats) => returned_stats' = returned_stats
       /\ (snapshot.ref # "none" /\ returned_stats' # returned_stats) => stats' = stats]_vars

\* The loop has counted a batch after the caller took a snapshot without any,
\* and the caller has written to its snapshot.
C28_Witness ==
    /\ snapshot.ref = "copy"
    /\ snapshot.runtime
    /\ snapshot.val.total_batches_processed = 0
    /\ snapshot.val.total_cost = Scribble
    /\ stats.total_batches_processed = 1
    /\ stats.total_cost > 0

\* C29: a process_batch run writes the store in the order create batch, mark
\* items, update batch, save cost metric. The step that marks items names the
\* run's batch, which exists and is in processing; the step that completes a
\* batch finds the run's items marked with it; the step that saves the cost
\* metric finds the batch completed. Hence in every state, also after a
\* failure between two steps, a processed item's batch reference is the id of
\* a batch row, and the items a completed batch fetched are processed.
C29_StoreWritesInOrder ==
    [][/\ batches' # batches /\ Len(batches') # Len(batches) => pc[Direct] = "create"
       /\ events' # events /\ (\E i \in Items : events'[i].processed # events[i].processed) =>
             /\ pc[Direct] = "mark"
             /\ batch_id[Direct] \in 1..Len(batches)
             /\ batches[batch_id[Direct]].status = "processing"
       /\ batches' # batches /\ Len(batches') = Len(batches) =>
             /\ pc[Direct] = "update"
             /\ \A i \in batch_events[Direct] :
                   events[i].processed /\ events[i].batch_id = batch_id[Direct]
       /\ cost_metrics' # cost_metrics =>
             /\ pc[Direct] = "save"
             /\ batches[batch_id[Direct]].status = "completed"
       /\ \A i \in Items : events'[i].processed => events'[i].batch_id \in 1..Len(batches')
       /\ \A b \in 1..Len(batches') :
             batches'[b].status = "completed" =>
                 \A i \in batches'[b].fetched : events'[i].processed]_vars

\* A run failed between the mark step and the update: its item is processed
\* and refers to the batch, which is left in processing.
C29_Witness ==
    /\ pc[Direct] = "raised"
    /\ Len(batches) = 1
    /\ batches[1].status = "processing"
    /\ \E i \in batches[1].fetched : events[i].processed /\ events[i].batch_id = 1

\* C30: total_batches_processed never exceeds the number of completed batch
\* rows and total_events_processed never exceeds the number of items marked
\* processed by completed batches; when no store operation has failed (every
\* batch row has been completed and its run has returned) and no iteration
\* holds a batch, they are equal.
MarkedByCompleted ==
    {i \in Items : events[i].processed /\ events[i].batch_id \in CompletedBatches}

C30_StatsMatchStore ==
    /\ stats.total_batches_processed <= Cardinality(CompletedBatches)
    /\ stats.total_events_processed <= Cardinality(MarkedByCompleted)
    /\ ((\A b \in BatchIds : Returned(b)) /\ (\A t \in Threads : batch_id[t] = NoBatch)) =>
           /\ stats.total_batches_processed = Cardinality(CompletedBatches)
           /\ stats.total_events_processed = Cardinality(MarkedByCompleted)

\* C31: while the Scheduler is running and no store call fails, every item
\* that is unprocessed is eventually flagged processed with a reference to a
\* batch that is completed and has its cost metric; and an iteration that
\* fetched something marks at least one item at its mark step.
C31_PendingItemsGetProcessed ==
    /\ \A i \in Items :
          (is_running /\ i \in Unprocessed) ~>
              (/\ events[i].processed
               /\ events[i].batch_id \in CompletedBatches
               /\ Returned(events[i].batch_id))
    /\ [][\A t \in Threads :
             (pc[t] = "mark" /\ pc'[t] = "update") =>
                 \E i \in Unprocessed : events'[i].processed]_vars

\* Both items were pending while the loop slept and are now processed, the
\* later one by a second batch.
C31_Witness ==
    /\ is_running
    /\ Unprocessed = {}
    /\ \A i \in Items : events[i].processed /\ Returned(events[i].batch_id)
    /\ events[1].batch_id # events[2].batch_id

\* C32: when a process_batch call raises at its fetch, at the creation of its
\* batch row or at its mark step (the failed statement is rolled back), every
\* item the call had fetched is unprocessed and without batch reference after
\* the raise, and a fetch that asks for enough items returns it; the next call
\* that returns a result after asking for that many has processed it.
C32_FailedRunLosesNoItem ==
    [][/\ (pc[Direct] \in {"fetch", "create", "process", "mark"} /\ pc'[Direct] = "raised") =>
             \A i \in batch_events[Direct] :
                 /\ events'[i].present
                 /\ ~events'[i].processed
                 /\ events'[i].batch_id = NoBatch
                 /\ \A S \in get_unprocessed_events(MaxItems)' : i \in S
       /\ (pc[Direct] = "save" /\ pc'[Direct] = "returned"
              /\ batch_size[Direct] >= Cardinality({i \in Items : events[i].present})) =>
             \A b \in BatchIds : \A i \in batches[b].fetched : events'[i].processed]_vars

\* A call failed after creating batch 1 for item 1 and before its mark step
\* was committed; the next call has fetched the item again and processed it in
\* batch 2.
C32_Witness ==
    /\ pc[Direct] = "returned"
    /\ Len(batches) = 2
    /\ batches[1].status = "processing"
    /\ 1 \in batches[1].fetched
    /\ events[1].processed
    /\ events[1].batch_id = 2
    /\ Returned(2)

\* The row a create step adds: its declared size is the number of items the
\* run fetched, at least 1 and at most the size the run asked for.
C33_SizeOfNewBatch ==
    (pc[Direct] = "create" /\ pc'[Direct] = "process") =>
        LET new == batches'[Len(batches')]
        IN  /\ Len(batches') = Len(batches) + 1
            /\ new.fetched = batch_events[Direct]
            /\ new.batch_size = Cardinality(batch_events[Direct])
            /\ new.batch_size >= 1
            /\ new.batch_size <= batch_size[Direct]

\* C33 as stated: every batch row has a declared size equal to the number of
\* items fetched for it, between 1 and the requested size of its run, and a
\* total volume equal to the sum of the fetched items' sizes.
C33_VolumeIsSum ==
    [][/\ C33_SizeOfNewBatch
       /\ \A b \in 1..Len(batches') :
             /\ batches'[b].batch_size = Cardinality(batches'[b].fetched)
             /\ batches'[b].batch_size >= 1
             /\ batches'[b].total_data_kb = SumKb(batches'[b].fetched)]_vars

\* C33 amended: every batch row has a declared size equal to the number of
\* items fetched for it, between 1 and the requested size of its run (no
\* batch of size 0 is created, so no division by a batch size divides by
\* zero), and a total volume equal to the sum of the fetched items' sizes
\* rounded to 2 decimals, which is that sum when the sizes have at most 2.
C33_VolumeIsRoundedSum ==
    [][/\ C33_SizeOfNewBatch
       /\ \A b \in 1..Len(batches') :
             /\ batches'[b].batch_size = Cardinality(batches'[b].fetched)
             /\ batches'[b].batch_size >= 1
             /\ batches'[b].total_data_kb = Round2(SumKb(batches'[b].fetched))
             /\ 2 * Abs(batches'[b].total_data_kb - SumKb(batches'[b].fetched)) <= 10
             /\ (\A i \in batches'[b].fetched : data_size_kb(i) % 10 = 0)
                   => batches'[b].total_data_kb = SumKb(batches'[b].fetched)
       /\ \A m \in cost_metrics' : m.batch_size >= 1 /\ m.cost_per_event.den >= 1]_vars

\* A run that asked for one item while two were pending has made a batch of
\* the older one, whose size of 10.004 KB is recorded as 10 KB.
C33_Witness ==
    /\ pc[Direct] = "returned"
    /\ batch_size[Direct] = 1
    /\ Len(batches) = 1
    /\ batches[1].fetched = {1}
    /\ batches[1].batch_size = 1
    /\ batches[1].total_data_kb = 10000
    /\ SumKb({1}) = 10004
    /\ 2 \in Unprocessed

\* C34: after stop() has cleared the running flag of a running Scheduler and
\* while no start() follows, at most one process_batch call of the Scheduler
\* returns (the one of the iteration in flight), the loop thread then ending
\* at its next loop test.
C34_AtMostOneCallAfterStop == ~is_running => calls_after_stop.n <= 1

\* C35: the cumulative counters of the stats (total batches, total items,
\* total cost, predictions used) are 0 at construction, and no step of
\* start(), stop() or a loop thread lowers or resets any of them.
C35_CountersNeverDecrease ==
    /\ Counters(stats) = NoRead /\ stats.ml_predictions_used = 0
    /\ [][/\ stats'.total_batches_processed >= stats.total_batches_processed
          /\ stats'.total_events_processed >= stats.total_events_processed
          /\ stats'.total_cost >= stats.total_cost
          /\ stats'.ml_predictions_used >= stats.ml_predictions_used]_vars

\* C36: ingesting an event whose event_id is already stored inserts nothing:
\* the events table (the stored event's processed flag and batch reference
\* included), the batches and the ingestion counters are unchanged, and the
\* response is a 200 with success = false and the duplicate message, not an
\* error. A first ingest stores the event once and counts it once; so every
\* event_id is stored at most once and counted at most once.
C36_DuplicateIngestIsNoOp ==
    [][/\ \A i \in Items :
             (ingest_event(i) /\ events[i].copies > 0) =>
                 /\ UNCHANGED <<events, batches, cost_metrics, ingestion_stats>>
                 /\ response'.status = 200
                 /\ ~response'.success
                 /\ response'.event_id = i
                 /\ response'.message = "Event already exists (duplicate)"
       /\ \A i \in Items :
             (ingest_event(i) /\ events[i].copies = 0) =>
                 /\ events'[i].copies = 1
                 /\ response'.success
                 /\ ingestion_stats'.total_events = ingestion_stats.total_events + 1
       /\ \A i \in Items : events'[i].copies <= 1
       /\ ingestion_stats'.total_events = Cardinality({i \in Items : events'[i].copies > 0})]_vars

\* Event 1 was ingested and processed in batch 1, then sent again: the
\* duplicate is reported, the row is still processed in batch 1 and the
\* counters still count one event.
C36_Witness ==
    /\ response = [status |-> 200, success |-> FALSE, event_id |-> 1,
                   message |-> "Event already exists (duplicate)"]
    /\ events[1].copies = 1
    /\ events[1].processed
    /\ events[1].batch_id = 1
    /\ ingestion_stats.total_events = 1
    /\ ingestion_stats.total_data_kb = data_size_kb(1)
    /\ ingestion_stats.events_per_type["order"] = 1

====
